---- MODULE Spec2Model ----
(***************************************************************************)
(* Model of lecture-notes/convert_to_html.py: the markdown-to-HTML text    *)
(* transformer (markdown_to_html), the notebook assembler                  *)
(* (convert_notebook_to_html) and the command-line entry point.            *)
(*                                                                         *)
(* A Python string is a sequence of one-character strings, so that the     *)
(* regular expressions of the source are computed character by character.  *)
(***************************************************************************)
EXTENDS Integers, Sequences, FiniteSets, TLC

(***************************************************************************)
(* Bounds of the model.                                                    *)
(***************************************************************************)
MaxLen == 4
MaxLines == 4
MaxText == 3
MaxCells == 4
MaxMathLines == 5

(***************************************************************************)
(* Character classes of Python's re module, restricted to the characters   *)
(* the model's inputs are built from.                                      *)
(***************************************************************************)
Digits == {"0", "1", "2", "3", "4", "5", "6", "7", "8", "9"}

Letters == {"a", "b", "c", "d", "e", "f", "g", "h", "i", "j", "k", "l", "m",
            "n", "o", "p", "q", "r", "s", "t", "u", "v", "w", "x", "y", "z",
            "A", "B", "C", "D", "E", "F", "G", "H", "I", "J", "K", "L", "M",
            "N", "O", "P", "Q", "R", "S", "T", "U", "V", "W", "X", "Y", "Z"}

\* \s
IsSpace(c) == c \in {" ", "\t", "\n"}

\* \d
IsDigit(c) == c \in Digits

\* \w, the class behind \b
IsWord(c) == c \in Letters \cup Digits \cup {"_"}

\* the backquote character (the module's lexer admits none inside a string)
Backquote == "bq"

Min(S) == CHOOSE x \in S : \A y \in S : x <= y

Max(S) == CHOOSE x \in S : \A y \in S : x >= y

(***************************************************************************)
(* String primitives: str.startswith, str.endswith, str.strip, str.split,  *)
(* str.join, str.lstrip.                                                   *)
(***************************************************************************)
StartsWith(s, pre) ==
    /\ Len(pre) <= Len(s)
    /\ SubSeq(s, 1, Len(pre)) = pre

EndsWith(s, suf) ==
    /\ Len(suf) <= Len(s)
    /\ SubSeq(s, Len(s) - Len(suf) + 1, Len(s)) = suf

\* the substring sub occurs in s
Contains(s, sub) ==
    \E p \in 1..(Len(s) - Len(sub) + 1) : SubSeq(s, p, p + Len(sub) - 1) = sub

\* number of whitespace characters of s from position p on (a greedy \s* or \s+)
SpaceRun(s, p) ==
    Min({q \in p..Len(s) : ~IsSpace(s[q])} \cup {Len(s) + 1}) - p

Strip(s) ==
    LET nonsp == {p \in 1..Len(s) : ~IsSpace(s[p])}
    IN  IF nonsp = {} THEN <<>> ELSE SubSeq(s, Min(nonsp), Max(nonsp))

LStripHash(s) ==
    LET other == {p \in 1..Len(s) : s[p] # "#"}
    IN  IF other = {} THEN <<>> ELSE SubSeq(s, Min(other), Len(s))

\* s.split('\n')
RECURSIVE SplitLines(_)
SplitLines(s) ==
    LET nl == {p \in 1..Len(s) : s[p] = "\n"}
    IN  IF nl = {} THEN <<s>>
        ELSE <<SubSeq(s, 1, Min(nl) - 1)>> \o SplitLines(SubSeq(s, Min(nl) + 1, Len(s)))

\* '\n'.join(parts)
RECURSIVE JoinLines(_)
JoinLines(parts) ==
    IF parts = <<>> THEN <<>>
    ELSE IF Len(parts) = 1 THEN parts[1]
    ELSE parts[1] \o <<"\n">> \o JoinLines(Tail(parts))

\* index of the last character of the line that position p lies on
LineEnd(s, p) ==
    Min({q \in p..Len(s) : s[q] = "\n"} \cup {Len(s) + 1}) - 1

\* ^ under re.MULTILINE
AtLineStart(s, p) == p = 1 \/ s[p - 1] = "\n"

(***************************************************************************)
(* The tags the transformer writes.                                        *)
(***************************************************************************)
DigitChar(n) == <<"0", "1", "2", "3", "4", "5", "6", "7", "8", "9">>[n + 1]

HOpen(n) == <<"<", "h", DigitChar(n), ">">>

HClose(n) == <<"<", "/", "h", DigitChar(n), ">">>

StrongOpen == <<"<", "s", "t", "r", "o", "n", "g", ">">>

StrongClose == <<"<", "/", "s", "t", "r", "o", "n", "g", ">">>

EmOpen == <<"<", "e", "m", ">">>

EmClose == <<"<", "/", "e", "m", ">">>

CodeOpen == <<"<", "c", "o", "d", "e", ">">>

CodeClose == <<"<", "/", "c", "o", "d", "e", ">">>

OlOpen == <<"<", "o", "l", " ", "c", "l", "a", "s", "s", "=", "\"", "i", "n", "d", "e", "n", "t", "e", "d", "-", "l", "i", "s", "t", "\"", ">">>

UlOpen == <<"<", "u", "l", " ", "c", "l", "a", "s", "s", "=", "\"", "i", "n", "d", "e", "n", "t", "e", "d", "-", "l", "i", "s", "t", "\"", ">">>

OlClose == <<"<", "/", "o", "l", ">">>

UlClose == <<"<", "/", "u", "l", ">">>

LiOpen == <<"<", "l", "i", ">">>

LiClose == <<"<", "/", "l", "i", ">">>

POpen == <<"<", "p", ">">>

PClose == <<"<", "/", "p", ">">>

ListOpen(t) == IF t = "ol" THEN OlOpen ELSE UlOpen

\* f'</{in_list}>'
ListClose(t) == IF t = "ol" THEN OlClose ELSE UlClose

(***************************************************************************)
(* Pass 1, headers: re.sub(r'^#{n}\s+(.+)$', r'<hn>\1</hn>', MULTILINE).   *)
(* HeaderGroup is the start of group 1 of a match at p, or 0 when the      *)
(* pattern does not match at p.  \s+ is greedy and gives characters back   *)
(* until (.+) finds a character that is not a newline.                     *)
(***************************************************************************)
\* variant: the pattern with \s in place of \s+
HeaderGroupOneSpace(s, p, n) ==
    IF /\ AtLineStart(s, p)
       /\ p + n + 1 <= Len(s)
       /\ \A q \in p..(p + n - 1) : s[q] = "#"
       /\ IsSpace(s[p + n])
       /\ s[p + n + 1] # "\n"
    THEN p + n + 1
    ELSE 0

HeaderGroup(s, p, n) ==
    IF /\ AtLineStart(s, p)
       /\ p + n - 1 <= Len(s)
       /\ \A q \in p..(p + n - 1) : s[q] = "#"
    THEN LET k == SpaceRun(s, p + n)
             J == {j \in 1..k : p + n + j <= Len(s) /\ s[p + n + j] # "\n"}
         IN  IF J = {} THEN 0 ELSE p + n + Max(J)
    ELSE 0

\* re.sub from position p on: the text up to the leftmost match is copied,
\* the match is replaced, and the search goes on after the match
RECURSIVE HeaderSubFrom(_, _, _)
HeaderSubFrom(s, n, p) ==
    LET M == {q \in p..Len(s) : HeaderGroup(s, q, n) # 0}
    IN  IF M = {} THEN SubSeq(s, p, Len(s))
        ELSE LET q == Min(M)
                 g == HeaderGroup(s, q, n)
                 e == LineEnd(s, g)
             IN  SubSeq(s, p, q - 1)
                     \o HOpen(n) \o SubSeq(s, g, e) \o HClose(n)
                     \o HeaderSubFrom(s, n, e + 1)

HeaderSub(s, n) == HeaderSubFrom(s, n, 1)

ConvertHeaders(s) ==
    HeaderSub(HeaderSub(HeaderSub(HeaderSub(HeaderSub(HeaderSub(s, 6), 5), 4), 3), 2), 1)

(***************************************************************************)
(* Passes 2 to 5: bold, asterisk italic, underscore italic, inline code.   *)
(* Each is a re.sub with an opening delimiter, a group and a closing       *)
(* delimiter; OpenAt and CloseAt are the delimiters, GroupOk the group.    *)
(***************************************************************************)
OpenLen(kind) == IF kind = "bold" THEN 2 ELSE 1

OpenAt(kind, s, p) ==
    CASE kind = "bold"   -> p + 1 <= Len(s) /\ s[p] = "*" /\ s[p + 1] = "*"
      [] kind = "star"   -> s[p] = "*"
      [] kind = "under"  -> s[p] = "_" /\ (p = 1 \/ ~IsWord(s[p - 1]))
      [] kind = "code"   -> s[p] = Backquote

CloseAt(kind, s, q) ==
    CASE kind = "bold"   -> q + 1 <= Len(s) /\ s[q] = "*" /\ s[q + 1] = "*"
      [] kind = "star"   -> s[q] = "*"
      [] kind = "under"  -> s[q] = "_" /\ (q = Len(s) \/ ~IsWord(s[q + 1]))
      [] kind = "code"   -> s[q] = Backquote

\* (.+?) takes no newline, the group of the inline code pattern no backquote
GroupOk(kind, s, a, b) ==
    IF kind = "code" THEN \A r \in a..b : s[r] # Backquote
    ELSE \A r \in a..b : s[r] # "\n"

\* position of the closing delimiter of the match that opens at p, or 0
SpanClose(kind, s, p) ==
    IF ~OpenAt(kind, s, p) THEN 0
    ELSE LET a == p + OpenLen(kind)
             Q == {q \in (a + 1)..Len(s) : CloseAt(kind, s, q) /\ GroupOk(kind, s, a, q - 1)}
         IN  IF Q = {} THEN 0 ELSE Min(Q)

SpanOpenTag(kind) ==
    CASE kind = "bold" -> StrongOpen
      [] kind = "code" -> CodeOpen
      [] OTHER -> EmOpen

SpanCloseTag(kind) ==
    CASE kind = "bold" -> StrongClose
      [] kind = "code" -> CodeClose
      [] OTHER -> EmClose

RECURSIVE SpanSubFrom(_, _, _)
SpanSubFrom(kind, s, p) ==
    LET M == {o \in p..Len(s) : SpanClose(kind, s, o) # 0}
    IN  IF M = {} THEN SubSeq(s, p, Len(s))
        ELSE LET o == Min(M)
                 q == SpanClose(kind, s, o)
             IN  SubSeq(s, p, o - 1)
                     \o SpanOpenTag(kind) \o SubSeq(s, o + OpenLen(kind), q - 1)
                     \o SpanCloseTag(kind)
                     \o SpanSubFrom(kind, s, q + OpenLen(kind))

ConvertBold(s) == SpanSubFrom("bold", s, 1)

ConvertItalicStar(s) == SpanSubFrom("star", s, 1)

ConvertItalicUnderscore(s) == SpanSubFrom("under", s, 1)

ConvertInlineCode(s) == SpanSubFrom("code", s, 1)

(***************************************************************************)
(* Pass 6, lists: one forward scan over the lines with the marker in_list  *)
(* ("none" stands for Python's False).                                     *)
(***************************************************************************)
\* number of digits of line from position p on (\d+)
DigitRun(line, p) ==
    Min({q \in p..Len(line) : ~IsDigit(line[q])} \cup {Len(line) + 1}) - p

\* length of the match of ^\d+\.\s+ at the start of line, or 0
OlPrefix(line) ==
    LET d == DigitRun(line, 1)
    IN  IF /\ d >= 1
           /\ d + 1 <= Len(line)
           /\ line[d + 1] = "."
           /\ SpaceRun(line, d + 2) >= 1
        THEN d + 1 + SpaceRun(line, d + 2)
        ELSE 0

\* length of the match of ^[-*]\s+ at the start of line, or 0
UlPrefix(line) ==
    IF /\ Len(line) >= 1
       /\ line[1] \in {"-", "*"}
       /\ SpaceRun(line, 2) >= 1
    THEN 1 + SpaceRun(line, 2)
    ELSE 0

\* the branch of the scan a line takes
LineType(line) ==
    IF OlPrefix(line) > 0 THEN "ol"
    ELSE IF UlPrefix(line) > 0 THEN "ul"
    ELSE "none"

\* re.sub of the list marker by '' and the <li> wrapping
ListItem(line) ==
    LET n == IF OlPrefix(line) > 0 THEN OlPrefix(line) ELSE UlPrefix(line)
    IN  LiOpen \o SubSeq(line, n + 1, Len(line)) \o LiClose

\* variant: the loop without lines 46-47 and 55-56
ScanLineNoClose(in_list, line) ==
    LET t == LineType(line)
    IN  IF t # "none"
        THEN (IF in_list # t THEN <<ListOpen(t)>> ELSE <<>>) \o <<ListItem(line)>>
        ELSE (IF in_list # "none" THEN <<ListClose(in_list)>> ELSE <<>>)
                 \o <<line>>

\* the lines one iteration of the loop appends, for a line read in state in_list
ScanLine(in_list, line) ==
    LET t == LineType(line)
    IN  IF t # "none"
        THEN (IF in_list # t
              THEN (IF in_list # "none" THEN <<ListClose(in_list)>> ELSE <<>>)
                       \o <<ListOpen(t)>>
              ELSE <<>>)
                 \o <<ListItem(line)>>
        ELSE (IF in_list # "none" THEN <<ListClose(in_list)>> ELSE <<>>)
                 \o <<line>>

RECURSIVE ScanLines(_, _, _)
ScanLines(lines, i, in_list) ==
    IF i > Len(lines)
    THEN (IF in_list # "none" THEN <<ListClose(in_list)>> ELSE <<>>)
    ELSE ScanLine(in_list, lines[i]) \o ScanLines(lines, i + 1, LineType(lines[i]))

ListScan(lines) == ScanLines(lines, 1, "none")

ConvertLists(s) == JoinLines(ListScan(SplitLines(s)))

(***************************************************************************)
(* Pass 7, paragraphs: re.split(r'\n\s*\n', html), strip, wrap, join.      *)
(***************************************************************************)
\* index of the last character of the match of \n\s*\n at p, or 0
BlankMatch(s, p) ==
    IF s[p] # "\n" THEN 0
    ELSE LET k == SpaceRun(s, p + 1)
             N == {q \in (p + 1)..(p + k) : s[q] = "\n"}
         IN  IF N = {} THEN 0 ELSE Max(N)

\* re.split: s is cut at every match, from is the start of the current piece
RECURSIVE SplitBlankFrom(_, _)
SplitBlankFrom(s, from) ==
    LET M == {p \in from..Len(s) : BlankMatch(s, p) # 0}
    IN  IF M = {} THEN <<SubSeq(s, from, Len(s))>>
        ELSE <<SubSeq(s, from, Min(M) - 1)>>
                 \o SplitBlankFrom(s, BlankMatch(s, Min(M)) + 1)

SplitBlank(s) == SplitBlankFrom(s, 1)

\* variant: the test without para.startswith('<ul')
StartsWithBlockTagNoUl(para) ==
    \/ StartsWith(para, <<"<", "h">>)
    \/ StartsWith(para, <<"<", "o", "l">>)
    \/ StartsWith(para, LiOpen)
    \/ StartsWith(para, <<"<", "/">>)
    \/ StartsWith(para, <<"<", "d", "i", "v">>)

\* the test of lines 81-83: the block already starts with a block-level tag
StartsWithBlockTag(para) ==
    \/ StartsWith(para, <<"<", "h">>)
    \/ StartsWith(para, <<"<", "o", "l">>)
    \/ StartsWith(para, <<"<", "u", "l">>)
    \/ StartsWith(para, LiOpen)
    \/ StartsWith(para, <<"<", "/">>)
    \/ StartsWith(para, <<"<", "d", "i", "v">>)

\* the test of line 85
IsDisplayMathBlock(para) ==
    \/ StartsWith(para, <<"$", "$">>)
    \/ EndsWith(para, <<"$", "$">>)

\* a stripped, non-empty block is wrapped in <p> or passed through
IsWrapped(para) == ~StartsWithBlockTag(para) /\ ~IsDisplayMathBlock(para)

FormatParagraph(para) ==
    IF IsWrapped(para) THEN POpen \o para \o PClose ELSE para

\* the stripped, non-empty blocks, in order
RECURSIVE StripBlocks(_)
StripBlocks(paragraphs) ==
    IF paragraphs = <<>> THEN <<>>
    ELSE LET para == Strip(Head(paragraphs))
         IN  (IF para # <<>> THEN <<para>> ELSE <<>>) \o StripBlocks(Tail(paragraphs))

Blocks(s) == StripBlocks(SplitBlank(s))

FormatParagraphs(blocks) == [k \in 1..Len(blocks) |-> FormatParagraph(blocks[k])]

ConvertParagraphs(s) == JoinLines(FormatParagraphs(Blocks(s)))

(***************************************************************************)
(* markdown_to_html: the seven passes in the order of the source.          *)
(***************************************************************************)
markdown_to_html(markdown_text) ==
    ConvertParagraphs(ConvertLists(ConvertInlineCode(ConvertItalicUnderscore(
        ConvertItalicStar(ConvertBold(ConvertHeaders(markdown_text)))))))

(***************************************************************************)
(* The notebook and the document assembler's helpers.                      *)
(***************************************************************************)
\* variant: the pattern ^#+\s+, which takes a header of any level
HasAnyHeader(source) ==
    \E p \in 1..Len(source) :
        /\ AtLineStart(source, p)
        /\ source[p] = "#"
        /\ \E q \in (p + 1)..Len(source) :
              /\ IsSpace(source[q])
              /\ \A r \in p..(q - 1) : source[r] = "#"

\* re.search(r'^#{1,2}\s+', source, re.MULTILINE)
HasSectionHeader(source) ==
    \E p \in 1..Len(source) :
        /\ AtLineStart(source, p)
        /\ source[p] = "#"
        /\ \/ p + 1 <= Len(source) /\ IsSpace(source[p + 1])
           \/ /\ p + 2 <= Len(source)
              /\ source[p + 1] = "#"
              /\ IsSpace(source[p + 2])

\* a cell of the notebook; has_source is FALSE for a cell read without a source
Cell(type, src) == [cell_type |-> type, source |-> src, has_source |-> TRUE]

CellNoSource(type) == [cell_type |-> type, source |-> <<>>, has_source |-> FALSE]

DefaultTitle == <<"L", "e", "c", "t", "u", "r", "e", " ", "N", "o", "t", "e", "s">>

\* lines 113-117, for a notebook whose first cell has a source
Title(cells) ==
    IF cells # <<>> /\ cells[1].cell_type = "markdown"
    THEN LET first_line == SplitLines(cells[1].source)[1]
         IN  IF StartsWith(first_line, <<"#">>)
             THEN Strip(LStripHash(first_line))
             ELSE DefaultTitle
    ELSE DefaultTitle

\* lines 120-125
RECURSIVE SectionCount(_)
SectionCount(cells) ==
    IF cells = <<>> THEN 0
    ELSE (IF Head(cells).cell_type = "markdown" /\ HasSectionHeader(Head(cells).source)
          THEN 1 ELSE 0) + SectionCount(Tail(cells))

\* f'sage-section-{n}'
SectionName(n) == <<"sage-section-", n>>

\* variant: the class without the guard for the cells before any section
SectionClassUnguarded(section) == SectionName(section)

\* line 208
SectionClass(section) ==
    IF section >= 0 THEN SectionName(section) ELSE SectionName(0)

\* the pieces the document is concatenated from
Segment(kind, cls, text) == [kind |-> kind, cls |-> cls, text |-> text]

\* lines 128-194: the head with one makeSagecell call per section
HeadSegments(t, count) ==
    <<Segment("head", <<>>, t)>>
        \o [i \in 1..count |-> Segment("makeSagecell", SectionName(i - 1), <<>>)]
        \o <<Segment("body", <<>>, <<>>)>>

MarkdownContainer(cell) ==
    Segment("markdown-cell", <<>>, markdown_to_html(cell.source))

\* variant: the source of a code cell put through the transformer
SageContainerConverted(cell, section) ==
    Segment("sage-cell", SectionClass(section), markdown_to_html(cell.source))

SageContainer(cell, section) ==
    Segment("sage-cell", SectionClass(section), cell.source)

FooterSegment == Segment("footer", <<>>, <<>>)

\* notebook_path.replace('.ipynb', '.html'); a path is a sequence of pieces
ReplaceIpynb(path) ==
    [k \in 1..Len(path) |-> IF path[k] = ".ipynb" THEN ".html" ELSE path[k]]

\* output_path is None
NoPath == <<>>

(***************************************************************************)
(* Inputs of the model.                                                    *)
(***************************************************************************)
\* all strings over alphabet of length at most n
Strings(alphabet, n) == UNION {[1..k -> alphabet] : k \in 0..n}

NonEmptyStrings(alphabet, n) == UNION {[1..k -> alphabet] : k \in 1..n}

RECURSIVE Hashes(_)
Hashes(n) == IF n = 0 THEN <<>> ELSE <<"#">> \o Hashes(n - 1)

\* a header line: marker, whitespace, text, trailing whitespace
HeaderLine(n, ws, text, trail) == Hashes(n) \o ws \o text \o trail

HeaderTexts ==
    {t \in NonEmptyStrings({"a", "#", " "}, MaxText) : ~IsSpace(t[1]) /\ ~IsSpace(t[Len(t)])}

HeaderGaps == NonEmptyStrings({" ", "\t"}, 2)

HeaderTrails == Strings({" ", "\t"}, 1)

HeaderInputs ==
    {HeaderLine(n, ws, text, trail) :
        n \in 1..6, ws \in HeaderGaps, text \in HeaderTexts, trail \in HeaderTrails}

\* a formula between its delimiters, alone or between two words
FormulaBodies == NonEmptyStrings({"*", "_", Backquote, "a"}, MaxLen)

SpanInputs ==
    {pre \o d \o body \o d \o post :
        pre \in {<<>>, <<"a", " ">>}, d \in {<<"$">>, <<"$", "$">>},
        body \in FormulaBodies, post \in {<<>>, <<" ", "a">>}}

ListExample == <<"-", " ", "a", "\n", "-", " ", "b", "\n", "\n", "t", "e", "x", "t">>

ListLineSet == {<<>>, <<"a">>, <<"-", " ", "a">>, <<"*", " ", "c">>, <<"1", ".", " ", "b">>}

ListInputs ==
    {JoinLines(ls) : ls \in NonEmptyStrings(ListLineSet, MaxLines)} \cup {ListExample}

MathLineSet == {<<>>, <<"$", "$">>, <<"a">>}

MathInputs == {JoinLines(ls) : ls \in NonEmptyStrings(MathLineSet, MaxMathLines)}

CellSet ==
    { Cell("markdown", <<"#", " ", "T", "\n", "#", "#", " ", "S">>),
      Cell("markdown", <<"#", "#", "#", " ", "x">>),
      CellNoSource("markdown"),
      Cell("code", <<"p">>),
      Cell("code", <<"q", "=", "1">>),
      CellNoSource("code"),
      Cell("raw", <<"r">>) }

Notebooks == Strings(CellSet, MaxCells)

ProgramName == <<"convert_to_html", ".py">>

InputPaths == {<<"nb", ".ipynb">>, <<"notes">>}

OutputPaths == {<<"out", ".html">>}

ArgvSet ==
    {<<ProgramName>>}
        \cup {<<ProgramName, i>> : i \in InputPaths}
        \cup {<<ProgramName, <<"nb", ".ipynb">>, o>> : o \in OutputPaths}

(***************************************************************************)
(* State.                                                                  *)
(***************************************************************************)
VARIABLES
    markdown_text,          \* argument of markdown_to_html
    html,                   \* markdown_to_html's html
    lines,                  \* html.split('\n') of the list pass
    result_lines,           \* result_lines of the list pass
    paragraphs,             \* the stripped, non-empty blocks of the last pass
    formatted_paragraphs,   \* formatted_paragraphs of the last pass
    md_pc,                  \* the pass markdown_to_html is about to run
    argv,                   \* sys.argv
    existing,               \* the paths that exist in the file system
    written,                \* the files written, in order: path and content
    pc,                     \* position of the program
    notebook_path,
    output_path,
    nb,                     \* nb.cells
    title,
    section_count,
    page_html,              \* convert_notebook_to_html's html
    current_section,
    cell_index,             \* number of cells the loop of line 198 has consumed
    exit_status,            \* -1 while the process runs
    stdout

md_vars == <<markdown_text, html, lines, result_lines, paragraphs, formatted_paragraphs, md_pc>>

prog_vars == <<argv, existing, written, pc, notebook_path, output_path, nb, title,
               section_count, page_html, current_section, cell_index, exit_status, stdout>>

vars == <<md_vars, prog_vars>>

(***************************************************************************)
(* markdown_to_html as a state machine: one step per pass.                 *)
(***************************************************************************)
ProgramIdle ==
    /\ argv = <<>>
    /\ existing = {}
    /\ written = <<>>
    /\ pc = "idle"
    /\ notebook_path = NoPath
    /\ output_path = NoPath
    /\ nb = <<>>
    /\ title = <<>>
    /\ section_count = 0
    /\ page_html = <<>>
    /\ current_section = -1
    /\ cell_index = 0
    /\ exit_status = -1
    /\ stdout = <<>>

\* line 17, for an argument drawn from inputs
MdInit(inputs) ==
    /\ markdown_text \in inputs
    /\ html = markdown_text
    /\ lines = <<>>
    /\ result_lines = <<>>
    /\ paragraphs = <<>>
    /\ formatted_paragraphs = <<>>
    /\ md_pc = "headers"
    /\ ProgramIdle

\* a pass that only rewrites html
MdStep(from, to, out) ==
    /\ md_pc = from
    /\ html' = out
    /\ md_pc' = to
    /\ UNCHANGED <<markdown_text, lines, result_lines, paragraphs, formatted_paragraphs>>
    /\ UNCHANGED prog_vars

PassHeaders == MdStep("headers", "bold", ConvertHeaders(html))

PassBold == MdStep("bold", "italic_star", ConvertBold(html))

PassItalicStar == MdStep("italic_star", "italic_underscore", ConvertItalicStar(html))

PassItalicUnderscore == MdStep("italic_underscore", "inline_code", ConvertItalicUnderscore(html))

PassInlineCode == MdStep("inline_code", "lists", ConvertInlineCode(html))

PassLists ==
    /\ md_pc = "lists"
    /\ lines' = SplitLines(html)
    /\ result_lines' = ListScan(lines')
    /\ html' = JoinLines(result_lines')
    /\ md_pc' = "paragraphs"
    /\ UNCHANGED <<markdown_text, paragraphs, formatted_paragraphs>>
    /\ UNCHANGED prog_vars

PassParagraphs ==
    /\ md_pc = "paragraphs"
    /\ paragraphs' = Blocks(html)
    /\ formatted_paragraphs' = FormatParagraphs(paragraphs')
    /\ html' = JoinLines(formatted_paragraphs')
    /\ md_pc' = "done"
    /\ UNCHANGED <<markdown_text, lines, result_lines>>
    /\ UNCHANGED prog_vars

MdNext ==
    \/ PassHeaders
    \/ PassBold
    \/ PassItalicStar
    \/ PassItalicUnderscore
    \/ PassInlineCode
    \/ PassLists
    \/ PassParagraphs

SpecHeaders == MdInit(HeaderInputs) /\ [][MdNext]_vars

SpecSpans == MdInit(SpanInputs) /\ [][MdNext]_vars

SpecLists == MdInit(ListInputs) /\ [][MdNext]_vars

SpecMath == MdInit(MathInputs) /\ [][MdNext]_vars

(***************************************************************************)
(* The program: the __main__ block and convert_notebook_to_html.           *)
(***************************************************************************)
MdIdle ==
    /\ markdown_text = <<>>
    /\ html = <<>>
    /\ lines = <<>>
    /\ result_lines = <<>>
    /\ paragraphs = <<>>
    /\ formatted_paragraphs = <<>>
    /\ md_pc = "idle"

Init ==
    /\ MdIdle
    /\ argv \in ArgvSet
    /\ existing \in {{}, InputPaths}
    /\ written = <<>>
    /\ pc = "main"
    /\ notebook_path = NoPath
    /\ output_path = NoPath
    /\ nb = <<>>
    /\ title = <<>>
    /\ section_count = 0
    /\ page_html = <<>>
    /\ current_section = -1
    /\ cell_index = 0
    /\ exit_status = -1
    /\ stdout = <<>>

\* lines 236-238
UsageExit ==
    /\ pc = "main"
    /\ Len(argv) < 2
    /\ stdout' = Append(stdout, "usage")
    /\ exit_status' = 1
    /\ pc' = "exited"
    /\ UNCHANGED <<existing, written, argv, notebook_path, output_path, nb, title,
                   section_count, page_html, current_section, cell_index>>
    /\ UNCHANGED md_vars

\* lines 240-241
ReadArgs ==
    /\ pc = "main"
    /\ Len(argv) >= 2
    /\ notebook_path' = argv[2]
    /\ output_path' = IF Len(argv) > 2 THEN argv[3] ELSE NoPath
    /\ pc' = "exists"
    /\ UNCHANGED <<existing, written, argv, nb, title, section_count, page_html,
                   current_section, cell_index, exit_status, stdout>>
    /\ UNCHANGED md_vars

\* lines 243-245
NotFoundExit ==
    /\ pc = "exists"
    /\ notebook_path \notin existing
    /\ stdout' = Append(stdout, "error")
    /\ exit_status' = 1
    /\ pc' = "exited"
    /\ UNCHANGED <<existing, written, argv, notebook_path, output_path, nb, title,
                   section_count, page_html, current_section, cell_index>>
    /\ UNCHANGED md_vars

\* variant: the output file opened for writing before the notebook is read
EnterConvertOpensOutput ==
    /\ pc = "exists"
    /\ notebook_path \in existing
    /\ output_path' = IF output_path = NoPath THEN ReplaceIpynb(notebook_path) ELSE output_path
    /\ written' = Append(written, [path |-> output_path', content |-> <<>>])
    /\ existing' = existing \cup {output_path'}
    /\ pc' = "read"
    /\ UNCHANGED <<argv, notebook_path, nb, title, section_count,
                   page_html, current_section, cell_index, exit_status, stdout>>
    /\ UNCHANGED md_vars

\* lines 243, 247, 105-106
EnterConvert ==
    /\ pc = "exists"
    /\ notebook_path \in existing
    /\ output_path' = IF output_path = NoPath THEN ReplaceIpynb(notebook_path) ELSE output_path
    /\ pc' = "read"
    /\ UNCHANGED <<existing, written, argv, notebook_path, nb, title, section_count,
                   page_html, current_section, cell_index, exit_status, stdout>>
    /\ UNCHANGED md_vars

\* an exception leaves the program: traceback, exit status 1
Raise ==
    /\ pc' = "raised"
    /\ exit_status' = 1

\* lines 109-110: the file holds any notebook
ReadNotebook ==
    /\ pc = "read"
    /\ \E cells \in Notebooks : nb' = cells
    /\ pc' = "title"
    /\ UNCHANGED <<existing, written, argv, notebook_path, output_path, title, section_count,
                   page_html, current_section, cell_index, exit_status, stdout>>
    /\ UNCHANGED md_vars

\* lines 109-110: open or nbformat.read raises
ReadFails ==
    /\ pc = "read"
    /\ Raise
    /\ UNCHANGED <<existing, written, argv, notebook_path, output_path, nb, title, section_count,
                   page_html, current_section, cell_index, stdout>>
    /\ UNCHANGED md_vars

\* the first cell is a markdown cell without a source: line 115 raises
TitleRaises == nb # <<>> /\ nb[1].cell_type = "markdown" /\ ~nb[1].has_source

\* lines 113-117
ExtractTitle ==
    /\ pc = "title"
    /\ ~TitleRaises
    /\ title' = Title(nb)
    /\ pc' = "count"
    /\ UNCHANGED <<existing, written, argv, notebook_path, output_path, nb, section_count,
                   page_html, current_section, cell_index, exit_status, stdout>>
    /\ UNCHANGED md_vars

TitleFails ==
    /\ pc = "title"
    /\ TitleRaises
    /\ Raise
    /\ UNCHANGED <<existing, written, argv, notebook_path, output_path, nb, title, section_count,
                   page_html, current_section, cell_index, stdout>>
    /\ UNCHANGED md_vars

\* a markdown cell without a source: line 124 raises
CountRaises == \E k \in 1..Len(nb) : nb[k].cell_type = "markdown" /\ ~nb[k].has_source

\* lines 119-125
CountSections ==
    /\ pc = "count"
    /\ ~CountRaises
    /\ section_count' = SectionCount(nb)
    /\ pc' = "head"
    /\ UNCHANGED <<existing, written, argv, notebook_path, output_path, nb, title,
                   page_html, current_section, cell_index, exit_status, stdout>>
    /\ UNCHANGED md_vars

CountFails ==
    /\ pc = "count"
    /\ CountRaises
    /\ Raise
    /\ UNCHANGED <<existing, written, argv, notebook_path, output_path, nb, title, section_count,
                   page_html, current_section, cell_index, stdout>>
    /\ UNCHANGED md_vars

\* lines 127-197
EmitHead ==
    /\ pc = "head"
    /\ page_html' = HeadSegments(title, section_count)
    /\ current_section' = -1
    /\ cell_index' = 0
    /\ pc' = "cells"
    /\ UNCHANGED <<existing, written, argv, notebook_path, output_path, nb, title,
                   section_count, exit_status, stdout>>
    /\ UNCHANGED md_vars

\* the cell the loop of line 198 takes next
NextCell == nb[cell_index + 1]

\* lines 199-205
ProcessMarkdownCell ==
    /\ pc = "cells"
    /\ cell_index < Len(nb)
    /\ NextCell.cell_type = "markdown"
    /\ current_section' = IF HasSectionHeader(NextCell.source)
                          THEN current_section + 1
                          ELSE current_section
    /\ page_html' = Append(page_html, MarkdownContainer(NextCell))
    /\ cell_index' = cell_index + 1
    /\ UNCHANGED <<existing, written, argv, pc, notebook_path, output_path, nb, title,
                   section_count, exit_status, stdout>>
    /\ UNCHANGED md_vars

\* lines 206-216
ProcessCodeCell ==
    /\ pc = "cells"
    /\ cell_index < Len(nb)
    /\ NextCell.cell_type = "code"
    /\ NextCell.has_source
    /\ page_html' = Append(page_html, SageContainer(NextCell, current_section))
    /\ cell_index' = cell_index + 1
    /\ UNCHANGED <<existing, written, argv, pc, notebook_path, output_path, nb, title,
                   section_count, current_section, exit_status, stdout>>
    /\ UNCHANGED md_vars

\* line 212 raises for a code cell without a source
CodeCellFails ==
    /\ pc = "cells"
    /\ cell_index < Len(nb)
    /\ NextCell.cell_type = "code"
    /\ ~NextCell.has_source
    /\ Raise
    /\ UNCHANGED <<existing, written, argv, notebook_path, output_path, nb, title, section_count,
                   page_html, current_section, cell_index, stdout>>
    /\ UNCHANGED md_vars

\* lines 199, 206: a cell of another type adds nothing
SkipCell ==
    /\ pc = "cells"
    /\ cell_index < Len(nb)
    /\ NextCell.cell_type \notin {"markdown", "code"}
    /\ cell_index' = cell_index + 1
    /\ UNCHANGED <<existing, written, argv, pc, notebook_path, output_path, nb, title,
                   section_count, page_html, current_section, exit_status, stdout>>
    /\ UNCHANGED md_vars

\* lines 218-226
EmitFooter ==
    /\ pc = "cells"
    /\ cell_index = Len(nb)
    /\ page_html' = Append(page_html, FooterSegment)
    /\ pc' = "write"
    /\ UNCHANGED <<existing, written, argv, notebook_path, output_path, nb, title,
                   section_count, current_section, cell_index, exit_status, stdout>>
    /\ UNCHANGED md_vars

\* lines 228-230
WriteOutput ==
    /\ pc = "write"
    /\ written' = Append(written, [path |-> output_path, content |-> page_html])
    /\ existing' = existing \cup {output_path}
    /\ pc' = "print"
    /\ UNCHANGED <<argv, notebook_path, output_path, nb, title, section_count, page_html,
                   current_section, cell_index, exit_status, stdout>>
    /\ UNCHANGED md_vars

\* line 229: open raises, nothing is written
WriteFails ==
    /\ pc = "write"
    /\ Raise
    /\ UNCHANGED <<existing, written, argv, notebook_path, output_path, nb, title, section_count,
                   page_html, current_section, cell_index, stdout>>
    /\ UNCHANGED md_vars

\* lines 232-233 and the end of the script
PrintSuccess ==
    /\ pc = "print"
    /\ stdout' = Append(stdout, "success")
    /\ exit_status' = 0
    /\ pc' = "exited"
    /\ UNCHANGED <<existing, written, argv, notebook_path, output_path, nb, title, section_count,
                   page_html, current_section, cell_index>>
    /\ UNCHANGED md_vars

Next ==
    \/ UsageExit
    \/ ReadArgs
    \/ NotFoundExit
    \/ EnterConvert
    \/ ReadNotebook
    \/ ReadFails
    \/ ExtractTitle
    \/ TitleFails
    \/ CountSections
    \/ CountFails
    \/ EmitHead
    \/ ProcessMarkdownCell
    \/ ProcessCodeCell
    \/ CodeCellFails
    \/ SkipCell
    \/ EmitFooter
    \/ WriteOutput
    \/ WriteFails
    \/ PrintSuccess

Spec == Init /\ [][Next]_vars

(***************************************************************************)
(* Properties of the assembler and of the program (specification Spec).    *)
(***************************************************************************)
\* the cells that yield a container
Emitting == {i \in 1..Len(nb) : nb[i].cell_type \in {"markdown", "code"}}

\* the containers of the body, in order
Containers == SelectSeq(page_html, LAMBDA seg : seg.kind \in {"markdown-cell", "sage-cell"})

\* the container that cell i, an emitting cell the loop has consumed, yields
ContainerOf(i) == Containers[Cardinality({j \in Emitting : j <= i})]

\* the code cells the loop has consumed
DoneCode == {i \in 1..cell_index : nb[i].cell_type = "code"}

\* line k of ls is a level-1 or level-2 header line: one or two '#' and
\* then whitespace, the end of the line counting as whitespace when another
\* line follows
IsSectionHeaderLine(ls, k) ==
    \E n \in 1..2 :
        /\ Len(ls[k]) >= n
        /\ \A p \in 1..n : ls[k][p] = "#"
        /\ IF Len(ls[k]) > n THEN ls[k][n + 1] \in {" ", "\t"} ELSE k < Len(ls)

\* cell k is a markdown cell with a level-1 or level-2 header line
IsHeaderCell(k) ==
    /\ nb[k].cell_type = "markdown"
    /\ \E l \in 1..Len(SplitLines(nb[k].source)) :
          IsSectionHeaderLine(SplitLines(nb[k].source), l)

\* number of header-bearing markdown cells before cell i
HeadersBefore(i) == Cardinality({k \in 1..(i - 1) : k <= Len(nb) /\ IsHeaderCell(k)})

HeaderBetween(i, j) == \E k \in (i + 1)..(j - 1) : IsHeaderCell(k)

\* C1: the number of distinct section indices among the sage-section classes
\* of the code cells never exceeds section_count
C1_SectionIndicesWithinCount ==
    Cardinality({ContainerOf(i).cls : i \in DoneCode}) <= section_count

\* C2 as stated: two code cells share their sage-section class if and only if
\* no header-bearing markdown cell lies between them
C2_SameClassIffSameSection ==
    \A i, j \in DoneCode :
        i < j => ((ContainerOf(i).cls = ContainerOf(j).cls) <=> ~HeaderBetween(i, j))

\* C2 amended: two code cells share their class if and only if no
\* header-bearing markdown cell lies between them or both lie before the
\* second header-bearing markdown cell
C2_SameClassIffSameGroup ==
    \A i, j \in DoneCode :
        i < j => ((ContainerOf(i).cls = ContainerOf(j).cls)
                    <=> (~HeaderBetween(i, j) \/ HeadersBefore(j) <= 1))

\* a code cell before the first header-bearing cell and one after it, with
\* that header cell between them, share sage-section-0
C2_Witness ==
    \E i, j \in DoneCode :
        /\ i < j
        /\ HeadersBefore(i) = 0
        /\ HeadersBefore(j) = 1
        /\ HeaderBetween(i, j)
        /\ ContainerOf(i).cls = SectionName(0)
        /\ ContainerOf(j).cls = SectionName(0)

\* the document is whole: head, one registration per section, one container
\* per emitting cell, footer
Assembled(content) ==
    /\ Len(content) = 2 + section_count + Cardinality(Emitting) + 1
    /\ content[1].kind = "head"
    /\ content[Len(content)].kind = "footer"

\* C4: the output file is written at most once, only once the whole document
\* is assembled, and a run that fails (usage, missing input, exception while
\* reading or converting) has written nothing
C4_WriteOnlyAfterAssembly ==
    /\ Len(written) <= 1
    /\ written # <<>> =>
          /\ pc \in {"print", "exited"}
          /\ written[1].path = output_path
          /\ written[1].content = page_html
          /\ Assembled(written[1].content)
    /\ exit_status = 1 => written = <<>>
    /\ (pc = "exited" /\ Len(argv) < 2) => (exit_status = 1 /\ stdout = <<"usage">>)
    /\ (pc = "exited" /\ Len(argv) >= 2 /\ argv[2] \notin existing)
          => (exit_status = 1 /\ stdout = <<"error">>)

\* a run that failed while converting a cell, after it converted others
C4_Witness ==
    /\ pc = "raised"
    /\ cell_index > 0
    /\ Len(page_html) > 2 + section_count
    /\ written = <<>>

\* C8: the body holds one container per markdown or code cell consumed, in
\* cell order and of the cell's kind, and a code cell's container holds the
\* cell's source unchanged
C8_OneContainerPerCell ==
    LET done == {i \in Emitting : i <= cell_index}
    IN  /\ Len(Containers) = Cardinality(done)
        /\ \A i \in done :
              /\ nb[i].cell_type = "markdown" => ContainerOf(i).kind = "markdown-cell"
              /\ nb[i].cell_type = "code" =>
                    /\ ContainerOf(i).kind = "sage-cell"
                    /\ ContainerOf(i).text = nb[i].source
        /\ pc \in {"write", "print"} => cell_index = Len(nb)
        /\ \A k \in 1..Len(page_html) :
              page_html[k].kind \in {"markdown-cell", "sage-cell"}
                  => k > 2 + section_count

\* a finished body with a skipped cell between containers of both kinds
C8_Witness ==
    /\ pc = "write"
    /\ \E i, j, k \in 1..Len(nb) :
          /\ i < j /\ j < k
          /\ nb[i].cell_type = "code"
          /\ nb[j].cell_type = "raw"
          /\ nb[k].cell_type = "markdown"
          /\ ContainerOf(i).text = nb[i].source
          /\ ContainerOf(k).kind = "markdown-cell"

MaxOf(a, b) == IF a >= b THEN a ELSE b

\* C9: current_section is the number of header-bearing markdown cells
\* consumed minus 1, each code cell is tagged sage-section-max(0, h - 1) for
\* the h header-bearing cells before it, and after the pass current_section
\* is section_count - 1
C9_CurrentSectionTracksHeaders ==
    /\ current_section = HeadersBefore(cell_index + 1) - 1
    /\ \A i \in DoneCode :
          ContainerOf(i).cls = SectionName(MaxOf(0, HeadersBefore(i) - 1))
    /\ pc \in {"write", "print"} => current_section = section_count - 1

\* a finished pass with a code cell before the first header and one after
\* the second
C9_Witness ==
    /\ pc = "write"
    /\ section_count = 2
    /\ current_section = 1
    /\ \E i, j \in DoneCode :
          /\ HeadersBefore(i) = 0
          /\ ContainerOf(i).cls = SectionName(0)
          /\ HeadersBefore(j) = 2
          /\ ContainerOf(j).cls = SectionName(1)

(***************************************************************************)
(* Properties of the transformer (specifications SpecHeaders, SpecSpans,   *)
(* SpecLists, SpecMath).                                                   *)
(***************************************************************************)
\* the TeX math regions of s from position p on, delimiters included:
\* $$...$$ where two dollars open, $...$ otherwise; an unclosed one is none
RECURSIVE MathRegions(_, _)
MathRegions(s, p) ==
    LET O == {o \in p..Len(s) : s[o] = "$"}
    IN  IF O = {} THEN {}
        ELSE LET o == Min(O)
                 display == o + 1 <= Len(s) /\ s[o + 1] = "$"
                 C == IF display
                      THEN {c \in (o + 2)..(Len(s) - 1) : s[c] = "$" /\ s[c + 1] = "$"}
                      ELSE {c \in (o + 1)..Len(s) : s[c] = "$"}
             IN  IF C = {} THEN {}
                 ELSE LET e == IF display THEN Min(C) + 1 ELSE Min(C)
                      IN  {SubSeq(s, o, e)} \cup MathRegions(s, e + 1)

\* C3: every TeX math region of the input is still there, character for
\* character, after each pass
C3_MathRegionsUnchanged ==
    \A region \in MathRegions(markdown_text, 1) : Contains(html, region)

\* number of '#' characters s starts with
LeadingHashes(s) == Min({p \in 1..Len(s) : s[p] # "#"} \cup {Len(s) + 1}) - 1

\* C5 as stated: a line of N '#', whitespace and a text becomes <hN>text</hN>
\* with the whitespace on both sides of the text trimmed
C5_HeaderTrimmedBothSides ==
    md_pc = "done" =>
        \A n \in 1..6 :
            LeadingHashes(markdown_text) = n =>
                \A ws \in HeaderGaps, text \in HeaderTexts, trail \in HeaderTrails :
                    markdown_text = HeaderLine(n, ws, text, trail)
                        => html = HOpen(n) \o text \o HClose(n)

\* C5 amended: the whitespace between the marker and the text is trimmed,
\* everything from the text to the end of the line is kept, trailing
\* whitespace included, and N is the number of leading '#'
C5_HeaderKeepsTrailing ==
    md_pc = "done" =>
        \A n \in 1..6 :
            LeadingHashes(markdown_text) = n =>
                \A ws \in HeaderGaps, text \in HeaderTexts, trail \in HeaderTrails :
                    markdown_text = HeaderLine(n, ws, text, trail)
                        => html = HOpen(n) \o text \o trail \o HClose(n)

\* "##" tab space "a" space has become <h2>a </h2>
C5_Witness ==
    /\ md_pc = "done"
    /\ markdown_text = <<"#", "#", "\t", " ", "a", " ">>
    /\ html = <<"<", "h", "2", ">", "a", " ", "<", "/", "h", "2", ">">>

\* the list of C6 as the claim writes it
ClaimedList == <<"<", "u", "l", " ", "c", "l", "a", "s", "s", "=", "\"", "i", "n", "d", "e", "n", "t", "e", "d", "-", "l", "i", "s", "t", "\"", ">", "<", "l", "i", ">", "a", "<", "/", "l", "i", ">", "\n", "<", "l", "i", ">", "b", "<", "/", "l", "i", ">", "<", "/", "u", "l", ">">>

ParagraphText == <<"<", "p", ">", "t", "e", "x", "t", "<", "/", "p", ">">>

\* C6 as stated: the list has the opening tag directly before the first item
\* and the closing tag directly after the last, and the paragraph follows
C6_ListWithoutNewlines ==
    (md_pc = "done" /\ markdown_text = ListExample)
        => html = ClaimedList \o ParagraphText

\* C6 amended: the tags and the items of the list are each on a line of
\* their own, and the paragraph block follows on the next line
C6_ListOnLines ==
    (md_pc = "done" /\ markdown_text = ListExample)
        => html = <<"<", "u", "l", " ", "c", "l", "a", "s", "s", "=", "\"", "i", "n", "d", "e", "n", "t", "e", "d", "-", "l", "i", "s", "t", "\"", ">", "\n", "<", "l", "i", ">", "a", "<", "/", "l", "i", ">", "\n", "<", "l", "i", ">", "b", "<", "/", "l", "i", ">", "\n", "<", "/", "u", "l", ">", "\n", "<", "p", ">", "t", "e", "x", "t", "<", "/", "p", ">">>

C6_Witness ==
    /\ md_pc = "done"
    /\ markdown_text = ListExample
    /\ Len(paragraphs) = 2
    /\ EndsWith(html, ParagraphText)

\* the maximal runs of non-blank lines of ls from line i on: the blocks of
\* the paragraph pass, each as the set of its line numbers
IsBlankLine(line) == \A p \in 1..Len(line) : IsSpace(line[p])

RunStart(ls, i) == ~IsBlankLine(ls[i]) /\ (i = 1 \/ IsBlankLine(ls[i - 1]))

RunOf(ls, i) ==
    {j \in i..Len(ls) : \A k \in i..j : ~IsBlankLine(ls[k])}

\* the lines of the k-th block
BlockLines(ls, k) ==
    LET starts == {i \in 1..Len(ls) : RunStart(ls, i)}
        i == CHOOSE x \in starts : Cardinality({y \in starts : y <= x}) = k
    IN  RunOf(ls, i)

\* the lines of ls that lie in a display-math region: from a line that
\* starts with $$ to the next line that ends with $$
RECURSIVE DisplayLines(_, _, _)
DisplayLines(ls, i, open_at) ==
    IF i > Len(ls) THEN {}
    ELSE IF open_at = 0
    THEN IF StartsWith(ls[i], <<"$", "$">>)
         THEN IF Len(ls[i]) >= 4 /\ EndsWith(ls[i], <<"$", "$">>)
              THEN {i} \cup DisplayLines(ls, i + 1, 0)
              ELSE DisplayLines(ls, i + 1, i)
         ELSE DisplayLines(ls, i + 1, 0)
    ELSE IF EndsWith(ls[i], <<"$", "$">>)
         THEN (open_at..i) \cup DisplayLines(ls, i + 1, 0)
         ELSE DisplayLines(ls, i + 1, open_at)

\* C7: no block that holds a line of a display-math region is wrapped in <p>
C7_DisplayMathNeverWrapped ==
    md_pc = "done" =>
        \A k \in 1..Len(paragraphs) :
            BlockLines(result_lines, k) \cap DisplayLines(result_lines, 1, 0) # {}
                => formatted_paragraphs[k] = paragraphs[k]

\* the kind of a line of the list pass's input, from the claim's patterns
ItemKind(line) ==
    IF \E d \in 1..Len(line) :
          /\ \A p \in 1..d : line[p] \in Digits
          /\ d + 2 <= Len(line)
          /\ line[d + 1] = "."
          /\ line[d + 2] \in {" ", "\t"}
    THEN "ol"
    ELSE IF Len(line) >= 2 /\ line[1] \in {"-", "*"} /\ line[2] \in {" ", "\t"}
    THEN "ul"
    ELSE "none"

\* what a line of result_lines is
TagKind(line) ==
    CASE line = OlOpen -> "ol("
      [] line = UlOpen -> "ul("
      [] line = OlClose -> ")ol"
      [] line = UlClose -> ")ul"
      [] StartsWith(line, LiOpen) /\ EndsWith(line, LiClose) -> "li"
      [] OTHER -> "text"

\* the tags the claim asks for around line i of ls: the closing tag of the
\* list that line i ends, the opening tag of the list it begins, the line
ExpectedAt(ls, i) ==
    LET t == ItemKind(ls[i])
        prev == IF i = 1 THEN "none" ELSE ItemKind(ls[i - 1])
    IN  (IF prev # "none" /\ prev # t
         THEN <<IF prev = "ol" THEN ")ol" ELSE ")ul">> ELSE <<>>)
            \o (IF t # "none" /\ prev # t
                THEN <<IF t = "ol" THEN "ol(" ELSE "ul(">> ELSE <<>>)
            \o <<IF t = "none" THEN "text" ELSE "li">>

RECURSIVE ExpectedTags(_, _)
ExpectedTags(ls, i) ==
    IF i > Len(ls)
    THEN (IF ls # <<>> /\ ItemKind(ls[Len(ls)]) # "none"
          THEN <<IF ItemKind(ls[Len(ls)]) = "ol" THEN ")ol" ELSE ")ul">> ELSE <<>>)
    ELSE ExpectedAt(ls, i) \o ExpectedTags(ls, i + 1)

\* the list tags of tags from i on are balanced and never nested, with open
\* the list that is open before i
RECURSIVE Balanced(_, _, _)
Balanced(tags, i, open) ==
    IF i > Len(tags) THEN open = "none"
    ELSE CASE tags[i] \in {"ol(", "ul("} ->
                  open = "none" /\ Balanced(tags, i + 1, IF tags[i] = "ol(" THEN "ol" ELSE "ul")
           [] tags[i] = ")ol" -> open = "ol" /\ Balanced(tags, i + 1, "none")
           [] tags[i] = ")ul" -> open = "ul" /\ Balanced(tags, i + 1, "none")
           [] tags[i] = "li" -> open # "none" /\ Balanced(tags, i + 1, open)
           [] OTHER -> open = "none" /\ Balanced(tags, i + 1, open)

\* C10: the list scan writes balanced, never nested list tags: one opening
\* tag before the first item of each maximal run of items of one kind, the
\* matching closing tag after its last item and before anything else
C10_ListTagsBalanced ==
    md_pc \in {"paragraphs", "done"} =>
        LET tags == [k \in 1..Len(result_lines) |-> TagKind(result_lines[k])]
        IN  /\ tags = ExpectedTags(lines, 1)
            /\ Balanced(tags, 1, "none")

\* "- a" then "1. b": </ul> and <ol class="indented-list"> between the items
C10_Witness ==
    /\ md_pc = "paragraphs"
    /\ markdown_text = <<"-", " ", "a", "\n", "1", ".", " ", "b">>
    /\ result_lines = <<UlOpen, <<"<", "l", "i", ">", "a", "<", "/", "l", "i", ">">>, UlClose, OlOpen, <<"<", "l", "i", ">", "b", "<", "/", "l", "i", ">">>, OlClose>>

====
